---- MODULE Spec2Model ----
(***************************************************************************)
(* Monitor Doorstroom (src/main.py): a Streamlit script that is re-run     *)
(* from top to bottom each time the uploaded file set or a filter widget   *)
(* changes.  One action of the model is one such re-run.                   *)
(*                                                                         *)
(* Representation.  A text is a tuple of character codes, compared the way *)
(* Python compares str (by code point).  A missing value (pandas NaN) is   *)
(* the tuple NaN.  A float is kept as an integer number of halves (1.5 is  *)
(* 3), so 'Aantal' values and their sums are in halves; 'Jaar' after       *)
(* astype(int) is a whole integer.                                         *)
(***************************************************************************)
EXTENDS Integers, Sequences, FiniteSets, TLC

VARIABLES
  uploaded_files,     \* value of the st.sidebar.file_uploader widget (ordered)
  cache,              \* st.cache_data store of load_and_combine_data
  selected_herkomst,  \* value of the selectbox (NoneSel when it has no value)
  selected_ho,        \* value of the multiselect, a set
  out                 \* everything the last run of the script computed

vars == <<uploaded_files, cache, selected_herkomst, selected_ho, out>>

----------------------------------------------------------------------------
(* Texts *)

\* "ROC van Twente"
ROC_VAN_TWENTE == <<82, 79, 67, 32, 118, 97, 110, 32, 84, 119, 101, 110, 116, 101>>
\* "Saxion"
SAXION == <<83, 97, 120, 105, 111, 110>>

NaN == <<-1>>
NoneSel == <<-2>>

\* Python's  sub in s
Contains(sub, s) ==
  \E i \in 0..(Len(s) - Len(sub)) : SubSeq(s, i + 1, i + Len(sub)) = sub

\* Python's  a < b  on str: lexicographic by code point
RECURSIVE StrLess(_, _)
StrLess(a, b) ==
  IF b = <<>> THEN FALSE
  ELSE IF a = <<>> THEN TRUE
  ELSE IF Head(a) # Head(b) THEN Head(a) < Head(b)
  ELSE StrLess(Tail(a), Tail(b))

\* sorted(S) for a finite set of texts
RECURSIVE SortedTexts(_)
SortedTexts(S) ==
  IF S = {} THEN <<>>
  ELSE LET m == CHOOSE x \in S : \A y \in S \ {x} : StrLess(x, y)
       IN <<m>> \o SortedTexts(S \ {m})

\* sorted(S) for a finite set of integers
RECURSIVE SortedInts(_)
SortedInts(S) ==
  IF S = {} THEN <<>>
  ELSE LET m == CHOOSE x \in S : \A y \in S : x <= y
       IN <<m>> \o SortedInts(S \ {m})

\* sorted(S, reverse=True)
RECURSIVE SortedIntsReverse(_)
SortedIntsReverse(S) ==
  IF S = {} THEN <<>>
  ELSE LET m == CHOOSE x \in S : \A y \in S : x >= y
       IN <<m>> \o SortedIntsReverse(S \ {m})

Range(s) == {s[i] : i \in 1..Len(s)}

\* df[mask]: the rows whose entry of the boolean mask is TRUE, in order
RECURSIVE BoolIndex(_, _)
BoolIndex(rows, mask) ==
  IF rows = <<>> THEN <<>>
  ELSE (IF Head(mask) THEN <<Head(rows)>> ELSE <<>>)
       \o BoolIndex(Tail(rows), Tail(mask))

\* Series.sum() of 'Aantal' (0 for an empty frame)
RECURSIVE SumAantal(_)
SumAantal(rows) ==
  IF rows = <<>> THEN 0 ELSE Head(rows).Aantal + SumAantal(Tail(rows))

\* int(x) for a float kept in halves: truncation toward zero
IntOf(h) == IF h >= 0 THEN h \div 2 ELSE -((-h) \div 2)

----------------------------------------------------------------------------
(* Cells of the two numeric columns as pd.read_csv delivers them *)

NumCell(h) == [kind |-> "num", v |-> h]
StrCell == [kind |-> "str", v |-> 0]
NaNCell == [kind |-> "nan", v |-> 0]

\* pd.to_numeric(..., errors='coerce'): what is no number becomes NaN
to_numeric(c) == IF c.kind = "num" THEN c ELSE NaNCell

\* .fillna(0)
fillna0(c) == IF c.kind = "nan" THEN NumCell(0) ELSE c

\* a slip: rounding to the nearest integer where astype(int) truncates
astype_int_round(c) == (c.v + 1) \div 2

\* .astype(int)
astype_int(c) == IntOf(c.v)

CoerceAantal(c) == fillna0(to_numeric(c)).v
CoerceJaar(c) == astype_int(fillna0(to_numeric(c)))

CoerceRow(r) ==
  [r EXCEPT !.Aantal = CoerceAantal(r.Aantal), !.Jaar = CoerceJaar(r.Jaar)]

----------------------------------------------------------------------------
(* load_and_combine_data *)

\* pd.concat(all_data, ignore_index=True)
RECURSIVE concat(_)
concat(all_data) ==
  IF all_data = <<>> THEN <<>> ELSE Head(all_data) \o concat(Tail(all_data))

\* a slip: the error handler leaves the loop (break) where the code goes on
RECURSIVE ReadLoop_abort(_, _)
ReadLoop_abort(files, acc) ==
  IF files = <<>> THEN acc
  ELSE LET file == Head(files)
       IN IF file.ok
          THEN ReadLoop_abort(Tail(files),
                 [acc EXCEPT !.all_data = Append(@, file.rows),
                             !.parsed = Append(@, file.name)])
          ELSE [acc EXCEPT !.errors = Append(@, file.name),
                           !.parsed = Append(@, file.name)]

\* the for loop: acc.all_data collects the parsed tables, acc.errors the
\* st.error reports, acc.parsed the files pd.read_csv was called on
RECURSIVE ReadLoop(_, _)
ReadLoop(files, acc) ==
  IF files = <<>> THEN acc
  ELSE LET file == Head(files)
           next == IF file.ok
                   THEN [acc EXCEPT !.all_data = Append(@, file.rows),
                                    !.parsed = Append(@, file.name)]
                   ELSE [acc EXCEPT !.errors = Append(@, file.name),
                                    !.parsed = Append(@, file.name)]
       IN ReadLoop(Tail(files), next)

\* a slip: testing  if files:  where the code tests  if all_data:
load_and_combine_data_if_files(files) ==
  LET acc == ReadLoop(files, [all_data |-> <<>>, errors |-> <<>>, parsed |-> <<>>])
      combined == concat(acc.all_data)
  IN IF files # <<>>
     THEN [none |-> FALSE,
           rows |-> [i \in 1..Len(combined) |-> CoerceRow(combined[i])],
           errors |-> acc.errors, parsed |-> acc.parsed]
     ELSE [none |-> TRUE, rows |-> <<>>,
           errors |-> acc.errors, parsed |-> acc.parsed]

load_and_combine_data(files) ==
  LET acc == ReadLoop(files, [all_data |-> <<>>, errors |-> <<>>, parsed |-> <<>>])
      combined == concat(acc.all_data)
  IN IF acc.all_data # <<>>
     THEN [none |-> FALSE,
           rows |-> [i \in 1..Len(combined) |-> CoerceRow(combined[i])],
           errors |-> acc.errors, parsed |-> acc.parsed]
     ELSE [none |-> TRUE, rows |-> <<>>,
           errors |-> acc.errors, parsed |-> acc.parsed]

\* a slip: a key made of the file names only
CacheKey_names(files) ==
  [i \in 1..Len(files) |-> [files[i] EXCEPT !.ok = TRUE, !.rows = <<>>]]

\* key used by @st.cache_data: the hash of the argument, i.e. of every
\* uploaded file's name and content, in order
CacheKey(files) == files

\* the decorated call: a hit returns the stored value (and replays its
\* st.error elements) without running the body; a miss runs it and stores it
CachedLoad(files, store) ==
  LET k == CacheKey(files)
  IN IF k \in DOMAIN store
     THEN [res |-> [store[k] EXCEPT !.parsed = <<>>], store |-> store]
     ELSE LET r == load_and_combine_data(files)
          IN [res |-> r,
              store |-> [x \in DOMAIN store \cup {k} |->
                           IF x = k THEN r ELSE store[x]]]

----------------------------------------------------------------------------
(* Filters *)

\* sorted(data[col].dropna().unique())
Options(rows, col) == SortedTexts({rows[i][col] : i \in 1..Len(rows)} \ {NaN})

\* a slip: the loop without its break ends on the last match
DefaultHerkomstIdx_last(alle_herkomst) ==
  LET hits == {i \in 1..Len(alle_herkomst) : Contains(ROC_VAN_TWENTE, alle_herkomst[i])}
  IN IF hits = {} THEN 0
     ELSE (CHOOSE i \in hits : \A j \in hits : i >= j) - 1

\* the enumerate loop with break: index (0-based) of the first name that
\* contains "ROC van Twente", 0 when there is none
DefaultHerkomstIdx(alle_herkomst) ==
  LET hits == {i \in 1..Len(alle_herkomst) : Contains(ROC_VAN_TWENTE, alle_herkomst[i])}
  IN IF hits = {} THEN 0
     ELSE (CHOOSE i \in hits : \A j \in hits : i <= j) - 1

\* [h for h in alle_ho if "Saxion" in h]
DefaultHoList(alle_ho) ==
  BoolIndex(alle_ho, [i \in 1..Len(alle_ho) |-> Contains(SAXION, alle_ho[i])])

\* st.sidebar.selectbox(label, options, index): the value the user picked in
\* this run, else the value kept from the previous run when the same widget
\* (same options, same index) was drawn in it, else options[index]
selectbox(options, index, event, prev, kept) ==
  IF event.widget = "herkomst" THEN event.value
  ELSE IF prev.page = "dashboard" /\ prev.alle_herkomst = options
          /\ prev.default_herkomst_idx = index THEN kept
  ELSE IF options = <<>> THEN NoneSel
  ELSE options[index + 1]

\* st.sidebar.multiselect(label, options, default)
multiselect(options, default, event, prev, kept) ==
  IF event.widget = "ho" THEN event.value
  ELSE IF prev.page = "dashboard" /\ prev.alle_ho = options
          /\ prev.default_ho_list = default THEN kept
  ELSE Range(default)

\* a slip: str.contains where the code compares with ==
FilteredDf_contains(rows, sel_herkomst) ==
  BoolIndex(rows, [i \in 1..Len(rows) |->
                     rows[i].herkomst # NaN /\ Contains(sel_herkomst, rows[i].herkomst)])

\* data[data[herkomst_col] == selected_herkomst]
FilteredDf(rows, sel_herkomst) ==
  BoolIndex(rows, [i \in 1..Len(rows) |-> rows[i].herkomst = sel_herkomst])

\* a slip: an empty selection taken to mean 'no filter'
HoSubset_empty_is_all(filtered_df, sel_ho) ==
  IF sel_ho = {} THEN filtered_df
  ELSE BoolIndex(filtered_df,
                 [i \in 1..Len(filtered_df) |-> filtered_df[i].ho \in sel_ho])

\* filtered_df[filtered_df[bestemming_col].isin(selected_ho)]
HoSubset(filtered_df, sel_ho) ==
  BoolIndex(filtered_df, [i \in 1..Len(filtered_df) |-> filtered_df[i].ho \in sel_ho])

\* df[df['Jaar'] == jaar]
OfJaar(rows, jaar) ==
  BoolIndex(rows, [i \in 1..Len(rows) |-> rows[i].Jaar = jaar])

----------------------------------------------------------------------------
(* Aggregates *)

\* the default year used when the selection holds no row
DefaultJaar == 2024

\* number of bars kept by nlargest
TopN == 10

\* len(df[col].unique()): NaN counts as one value
NUnique(rows, col) == Cardinality({rows[i][col] : i \in 1..Len(rows)})

\* df.groupby(col)['Aantal'].sum().reset_index(): one row per key, sorted by
\* key; groupby's default dropna=True leaves out the rows whose key is NaN
GroupBySum(rows, col) ==
  LET keys == Options(rows, col)
  IN [k \in 1..Len(keys) |->
        (col :> keys[k]) @@
        [Aantal |-> SumAantal(BoolIndex(rows,
                      [i \in 1..Len(rows) |-> rows[i][col] = keys[k]]))]]

\* df.groupby(['Jaar', col])['Aantal'].sum().reset_index(): sorted by year,
\* then by key; rows with a NaN key are left out
RECURSIVE GroupByJaarRec(_, _, _)
GroupByJaarRec(rows, col, jaren) ==
  IF jaren = <<>> THEN <<>>
  ELSE LET g == GroupBySum(OfJaar(rows, Head(jaren)), col)
       IN [k \in 1..Len(g) |-> [Jaar |-> Head(jaren)] @@ g[k]]
          \o GroupByJaarRec(rows, col, Tail(jaren))

GroupByJaarSum(rows, col) ==
  GroupByJaarRec(rows, col, SortedInts({rows[i].Jaar : i \in 1..Len(rows)}))

\* a slip: an unstable order, a new row going before the rows equal to it
RECURSIVE InsertDesc_unstable(_, _)
InsertDesc_unstable(sorted, r) ==
  IF sorted = <<>> THEN <<r>>
  ELSE IF Head(sorted).Aantal > r.Aantal
       THEN <<Head(sorted)>> \o InsertDesc_unstable(Tail(sorted), r)
       ELSE <<r>> \o sorted

\* place of a new row in a descending order: after every row that is not
\* smaller (mergesort is stable)
RECURSIVE InsertDesc(_, _)
InsertDesc(sorted, r) ==
  IF sorted = <<>> THEN <<r>>
  ELSE IF Head(sorted).Aantal >= r.Aantal
       THEN <<Head(sorted)>> \o InsertDesc(Tail(sorted), r)
       ELSE <<r>> \o sorted

RECURSIVE SortDesc(_)
SortDesc(rows) ==
  IF rows = <<>> THEN <<>>
  ELSE InsertDesc(SortDesc(SubSeq(rows, 1, Len(rows) - 1)), rows[Len(rows)])

\* df.nlargest(n, 'Aantal') (keep='first')
nlargest(n, rows) ==
  LET s == SortDesc(rows)
  IN SubSeq(s, 1, IF Len(s) < n THEN Len(s) ELSE n)

\* a slip: a delta also against a previous year without students
Delta_ge(totaal_huidig, totaal_vorig, vorig_jaar) ==
  IF totaal_vorig >= 0
  THEN [diff |-> totaal_huidig - totaal_vorig,
        delta |-> <<IntOf(totaal_huidig - totaal_vorig), vorig_jaar>>]
  ELSE [diff |-> 0, delta |-> <<>>]

\* delta = None; if totaal_vorig > 0: diff = ...; delta = f"{int(diff)} t.o.v.
\* {vorig_jaar}"  (<<>> is None, <<d, j>> is the text "d t.o.v. j")
Delta(totaal_huidig, totaal_vorig, vorig_jaar) ==
  IF totaal_vorig > 0
  THEN [diff |-> totaal_huidig - totaal_vorig,
        delta |-> <<IntOf(totaal_huidig - totaal_vorig), vorig_jaar>>]
  ELSE [diff |-> 0, delta |-> <<>>]

\* the KPI block: jaren, huidig_jaar, vorig_jaar, the totals, delta and the
\* three metrics
Kpi(ho_subset) ==
  LET jaren == SortedIntsReverse({ho_subset[i].Jaar : i \in 1..Len(ho_subset)})
      huidig_jaar == IF jaren # <<>> THEN jaren[1] ELSE DefaultJaar
      vorig_jaar == huidig_jaar - 1
      totaal_huidig == SumAantal(OfJaar(ho_subset, huidig_jaar))
      totaal_vorig == SumAantal(OfJaar(ho_subset, vorig_jaar))
  IN [jaren |-> jaren, huidig_jaar |-> huidig_jaar, vorig_jaar |-> vorig_jaar,
      totaal_huidig |-> totaal_huidig, totaal_vorig |-> totaal_vorig,
      diff |-> Delta(totaal_huidig, totaal_vorig, vorig_jaar).diff,
      delta |-> Delta(totaal_huidig, totaal_vorig, vorig_jaar).delta,
      kpi1 |-> IntOf(totaal_huidig),
      kpi2 |-> NUnique(ho_subset, "ho"),
      kpi3 |-> NUnique(ho_subset, "opl")]

----------------------------------------------------------------------------
(* One run of the script *)

NoEvent == [widget |-> "none", value |-> <<>>]

\* the else branch: st.info and the instructions; nothing else is computed
InfoRun(loaded) ==
  [page |-> "info", steps |-> <<"load", "info">>,
   none |-> loaded.none, data |-> loaded.rows,
   errors |-> loaded.errors, parsed |-> loaded.parsed,
   alle_herkomst |-> <<>>, default_herkomst_idx |-> 0,
   alle_ho |-> <<>>, default_ho_list |-> <<>>,
   filtered_df |-> <<>>, ho_subset |-> <<>>, kpi |-> Kpi(<<>>),
   trend_data |-> <<>>, markt_data |-> <<>>, sector_data |-> <<>>,
   herkomst_type |-> <<>>]

\* the branch  if data is not None
DashboardRun(loaded, event, prev, kept_herkomst, kept_ho) ==
  LET data == loaded.rows
      alle_herkomst == Options(data, "herkomst")
      default_herkomst_idx == DefaultHerkomstIdx(alle_herkomst)
      sel_herkomst == selectbox(alle_herkomst, default_herkomst_idx, event,
                                prev, kept_herkomst)
      alle_ho == Options(data, "ho")
      default_ho_list == DefaultHoList(alle_ho)
      sel_ho == multiselect(alle_ho, default_ho_list, event, prev, kept_ho)
      filtered_df == FilteredDf(data, sel_herkomst)
      ho_subset == HoSubset(filtered_df, sel_ho)
      kpi == Kpi(ho_subset)
  IN [sel_herkomst |-> sel_herkomst, sel_ho |-> sel_ho,
      out |->
       [page |-> "dashboard",
        steps |-> <<"load", "filters", "kpi", "trend", "markt", "sector",
                    "herkomst_type", "tabel">>,
        none |-> loaded.none, data |-> data,
        errors |-> loaded.errors, parsed |-> loaded.parsed,
        alle_herkomst |-> alle_herkomst,
        default_herkomst_idx |-> default_herkomst_idx,
        alle_ho |-> alle_ho, default_ho_list |-> default_ho_list,
        filtered_df |-> filtered_df, ho_subset |-> ho_subset, kpi |-> kpi,
        trend_data |-> GroupByJaarSum(ho_subset, "ho"),
        markt_data |-> GroupBySum(OfJaar(filtered_df, kpi.huidig_jaar), "ho"),
        sector_data |-> nlargest(TopN,
                          GroupBySum(OfJaar(ho_subset, kpi.huidig_jaar), "opl")),
        herkomst_type |-> GroupByJaarSum(ho_subset, "soort")]]

\* the whole script for the given widget values; the widgets of the sidebar
\* that are not drawn in a run lose their value
Script(files, store, event, prev, kept_herkomst, kept_ho) ==
  LET c == CachedLoad(files, store)
  IN IF ~c.res.none
     THEN [store |-> c.store] @@
          DashboardRun(c.res, event, prev, kept_herkomst, kept_ho)
     ELSE [store |-> c.store, sel_herkomst |-> NoneSel, sel_ho |-> {},
           out |-> InfoRun(c.res)]

Rerun(files, event) ==
  LET r == Script(files, cache, event, out, selected_herkomst, selected_ho)
  IN /\ uploaded_files' = files
     /\ cache' = r.store
     /\ selected_herkomst' = r.sel_herkomst
     /\ selected_ho' = r.sel_ho
     /\ out' = r.out

----------------------------------------------------------------------------
(* The files an analyst may upload *)

MaxFiles == 2
MaxCache == 3

ALFA == <<65, 108, 102, 97>>                           \* "Alfa"
ROC_2 == ROC_VAN_TWENTE \o <<32, 50>>                  \* "ROC van Twente 2"
ROC_LOWER == <<114, 111, 99, 32, 118, 97, 110, 32, 116, 119, 101, 110, 116, 101>>
AVANS == <<65, 118, 97, 110, 115>>                     \* "Avans"
HS_SAXION == <<72, 83, 32>> \o SAXION                  \* "HS Saxion"
UT == <<85, 84>>                                       \* "UT"
BOUW == <<66, 111, 117, 119>>                          \* "Bouw"
ICT == <<73, 67, 84>>                                  \* "ICT"
MBO == <<109, 98, 111>>                                \* "mbo"
HAVO == <<104, 97, 118, 111>>                          \* "havo"

\* a whole number as a float in halves
W(n) == NumCell(2 * n)

Row(jaar, aantal, herkomst, soort, ho, opl) ==
  [Jaar |-> jaar, Aantal |-> aantal, herkomst |-> herkomst, soort |-> soort,
   ho |-> ho, opl |-> opl]

Parsed(name, rows) == [name |-> name, ok |-> TRUE, rows |-> rows]
Unreadable(name) == [name |-> name, ok |-> FALSE, rows |-> <<>>]

FilePool ==
  { Unreadable("kapot.bin"),
    Unreadable("2023.csv"),
    Parsed("leeg.csv", <<>>),
    Parsed("2023.csv",
      << Row(W(2023), W(10), ROC_VAN_TWENTE, MBO, SAXION, ICT),
         Row(W(2023), W(4), ALFA, MBO, UT, BOUW) >>),
    Parsed("2024.csv",
      << Row(W(2024), StrCell, ROC_VAN_TWENTE, MBO, SAXION, ICT),
         Row(W(2024), W(5), ROC_VAN_TWENTE, NaN, UT, BOUW) >>),
    Parsed("extra.csv",
      << Row(W(2024), W(-3), ROC_VAN_TWENTE, MBO, SAXION, NaN),
         Row(NumCell(4047), NumCell(3), ROC_2, HAVO, HS_SAXION, ICT),
         Row(NaNCell, W(7), ROC_VAN_TWENTE, MBO, NaN, BOUW) >>),
    Parsed("overig.csv",
      << Row(StrCell, NaNCell, ROC_LOWER, MBO, UT, ICT),
         Row(W(2024), W(1), ALFA, HAVO, AVANS, BOUW),
         Row(W(2023), W(2), NaN, MBO, AVANS, ICT) >>) }

----------------------------------------------------------------------------
(* The session *)

\* the first run of a session: nothing uploaded, nothing cached
Init ==
  LET r == Script(<<>>, <<>>, NoEvent, [page |-> "none"], NoneSel, {})
  IN /\ uploaded_files = <<>>
     /\ cache = r.store
     /\ selected_herkomst = r.sel_herkomst
     /\ selected_ho = r.sel_ho
     /\ out = r.out

\* the model follows a session for as long as the cache holds at most
\* MaxCache results
Fits(files) ==
  CacheKey(files) \in DOMAIN cache \/ Cardinality(DOMAIN cache) < MaxCache

\* the analyst drops one more file into the uploader
AddFile(f) ==
  /\ Len(uploaded_files) < MaxFiles
  /\ Fits(Append(uploaded_files, f))
  /\ Rerun(Append(uploaded_files, f), NoEvent)

\* the analyst removes a file from the uploader
RemoveFile(i) ==
  LET rest == SubSeq(uploaded_files, 1, i - 1)
              \o SubSeq(uploaded_files, i + 1, Len(uploaded_files))
  IN /\ Fits(rest)
     /\ Rerun(rest, NoEvent)

\* the analyst picks another herkomst in the selectbox
SelectHerkomst(h) ==
  /\ out.page = "dashboard"
  /\ h # selected_herkomst
  /\ Rerun(uploaded_files, [widget |-> "herkomst", value |-> h])

\* the analyst changes the multiselect
SelectHo(S) ==
  /\ out.page = "dashboard"
  /\ S # selected_ho
  /\ Rerun(uploaded_files, [widget |-> "ho", value |-> S])

Next ==
  \/ \E f \in FilePool : AddFile(f)
  \/ \E i \in 1..Len(uploaded_files) : RemoveFile(i)
  \/ \E h \in Range(out.alle_herkomst) : SelectHerkomst(h)
  \/ \E S \in SUBSET Range(out.alle_ho) : SelectHo(S)

Spec == Init /\ [][Next]_vars

----------------------------------------------------------------------------
(* Properties *)

data == out.data
filtered_df == out.filtered_df
ho_subset == out.ho_subset
kpi == out.kpi

Idx(s) == 1..Len(s)
OkIdx == {i \in Idx(uploaded_files) : uploaded_files[i].ok}
FailIdx == Idx(uploaded_files) \ OkIdx

\* sum of 'Aantal' over the rows with an index in I
RECURSIVE SumOver(_, _)
SumOver(rows, I) ==
  IF I = {} THEN 0
  ELSE LET i == CHOOSE x \in I : TRUE
       IN rows[i].Aantal + SumOver(rows, I \ {i})

\* number of rows of the files that parsed and stand before position i
RECURSIVE RowsBefore(_)
RowsBefore(i) ==
  IF i <= 1 THEN 0
  ELSE RowsBefore(i - 1)
       + (IF uploaded_files[i - 1].ok THEN Len(uploaded_files[i - 1].rows) ELSE 0)

\* the four text columns of two rows agree
SameTexts(r, q) ==
  r.herkomst = q.herkomst /\ r.soort = q.soort /\ r.ho = q.ho /\ r.opl = q.opl

\* s is t restricted to the indices in I, order kept
Restriction(s, t, I) ==
  /\ Len(s) = Cardinality(I)
  /\ \A i \in I : s[Cardinality({j \in I : j <= i})] = t[i]

\* C1: when at least one uploaded file parses, the combined table is the
\* concatenation, in upload order and in row order, of the files that parsed:
\* its length is the sum of their lengths, a failing file adds no row and
\* exactly one error naming it, and does not stop the files around it
C1_Concat ==
  OkIdx # {} =>
    /\ ~out.none
    /\ Len(data) = RowsBefore(Len(uploaded_files) + 1)
    /\ \A i \in OkIdx : \A j \in Idx(uploaded_files[i].rows) :
         LET raw == uploaded_files[i].rows[j]
             row == data[RowsBefore(i) + j]
         IN /\ SameTexts(row, raw)
            /\ raw.Aantal.kind = "num" => row.Aantal = raw.Aantal.v
    /\ Len(out.errors) = Cardinality(FailIdx)
    /\ \A i \in FailIdx :
         out.errors[Cardinality({j \in FailIdx : j <= i})] = uploaded_files[i].name

\* a failing file stands before a file with rows, and its rows arrived
C1_Witness ==
  /\ Len(uploaded_files) = 2
  /\ ~uploaded_files[1].ok /\ uploaded_files[2].ok
  /\ uploaded_files[2].rows # <<>>
  /\ Len(data) = Len(uploaded_files[2].rows)
  /\ out.errors = <<uploaded_files[1].name>>

\* C2: with no file uploaded, or none that parses, the result is None, the
\* page is the waiting page and no filter, KPI or chart is computed; the
\* dashboard is computed exactly when a file parsed
C2_NoData ==
  /\ out.none <=> OkIdx = {}
  /\ out.none => out.page = "info" /\ out.steps = <<"load", "info">>
                 /\ data = <<>>
  /\ ~out.none => out.page = "dashboard" /\ out.steps[2] = "filters"
                  /\ Len(out.steps) = 8

\* files were uploaded and every one of them failed
C2_Witness ==
  /\ Len(uploaded_files) = 2
  /\ OkIdx = {}
  /\ out.page = "info"
  /\ Len(out.errors) = 2

\* the rows of the files that parsed, as read, before any coercion
RECURSIVE RawRows(_)
RawRows(files) ==
  IF files = <<>> THEN <<>>
  ELSE (IF Head(files).ok THEN Head(files).rows ELSE <<>>) \o RawRows(Tail(files))

\* C3 as stated: in every combined table each 'Aantal' is a number >= 0 and
\* each 'Jaar' an integer, a cell that is no number is 0, and a cell that is
\* a number keeps its value
C3_Original ==
  LET raw == RawRows(uploaded_files)
  IN ~out.none =>
       \A i \in Idx(data) :
         /\ data[i].Aantal >= 0
         /\ raw[i].Aantal.kind # "num" => data[i].Aantal = 0
         /\ raw[i].Jaar.kind # "num" => data[i].Jaar = 0
         /\ raw[i].Aantal.kind = "num" => data[i].Aantal = raw[i].Aantal.v
         /\ raw[i].Jaar.kind = "num" => 2 * data[i].Jaar = raw[i].Jaar.v

\* C3, amended: in every combined table a cell of 'Aantal' or 'Jaar' that is
\* no number is 0; an 'Aantal' that is a number keeps its value, negative
\* ones included; a 'Jaar' that is a number is cut to its integer part; and
\* coercing the coerced columns again changes nothing
C3_Coercion ==
  LET raw == RawRows(uploaded_files)
  IN ~out.none =>
       /\ Len(data) = Len(raw)
       /\ \A i \in Idx(data) :
            /\ raw[i].Aantal.kind # "num" => data[i].Aantal = 0
            /\ raw[i].Jaar.kind # "num" => data[i].Jaar = 0
            /\ raw[i].Aantal.kind = "num" => data[i].Aantal = raw[i].Aantal.v
            /\ raw[i].Jaar.kind = "num" =>
                 /\ raw[i].Jaar.v >= 0 =>
                      2 * data[i].Jaar <= raw[i].Jaar.v
                      /\ raw[i].Jaar.v < 2 * data[i].Jaar + 2
                 /\ raw[i].Jaar.v < 0 =>
                      2 * data[i].Jaar >= raw[i].Jaar.v
                      /\ raw[i].Jaar.v > 2 * data[i].Jaar - 2
            /\ CoerceAantal(NumCell(data[i].Aantal)) = data[i].Aantal
            /\ CoerceJaar(NumCell(2 * data[i].Jaar)) = data[i].Jaar

\* a table holding a text count, a missing year, a negative count and a
\* year with a fraction
C3_Witness ==
  LET raw == RawRows(uploaded_files)
  IN /\ ~out.none
     /\ \E i \in Idx(data) : raw[i].Aantal.kind = "str" /\ data[i].Aantal = 0
     /\ \E i \in Idx(data) : raw[i].Jaar.kind = "nan" /\ data[i].Jaar = 0
     /\ \E i \in Idx(data) : data[i].Aantal < 0
     /\ \E i \in Idx(data) : raw[i].Jaar.kind = "num"
                             /\ 2 * data[i].Jaar # raw[i].Jaar.v

\* the seven aggregates of a run, apart from the market share, are zero/empty
SixEmpty ==
  /\ ho_subset = <<>>
  /\ kpi.huidig_jaar = DefaultJaar
  /\ kpi.totaal_huidig = 0 /\ kpi.totaal_vorig = 0 /\ kpi.delta = <<>>
  /\ kpi.kpi1 = 0 /\ kpi.kpi2 = 0 /\ kpi.kpi3 = 0
  /\ out.trend_data = <<>>
  /\ out.sector_data = <<>>
  /\ out.herkomst_type = <<>>

\* C4 as stated: with no destination selected, ho_subset is empty and all
\* seven aggregates, the market share included, are zero/empty
C4_Original ==
  (out.page = "dashboard" /\ selected_ho = {}) =>
    SixEmpty /\ out.markt_data = <<>>

\* C4, amended: with no destination selected, ho_subset is empty and the
\* KPIs, the trend, the top 10 and the pathway trend are zero/empty; the
\* market share is taken from filtered_df, and holds one row per destination
\* of the selected herkomst in the default year 2024, with its summed count
C4_EmptySelection ==
  (out.page = "dashboard" /\ selected_ho = {}) =>
    /\ SixEmpty
    /\ LET I == {i \in Idx(filtered_df) :
                   filtered_df[i].Jaar = DefaultJaar /\ filtered_df[i].ho # NaN}
       IN /\ {out.markt_data[k].ho : k \in Idx(out.markt_data)}
               = {filtered_df[i].ho : i \in I}
          /\ \A k \in Idx(out.markt_data) :
               out.markt_data[k].Aantal
                 = SumOver(filtered_df,
                           {i \in I : filtered_df[i].ho = out.markt_data[k].ho})
          /\ Len(out.markt_data) = Cardinality({filtered_df[i].ho : i \in I})

\* nothing is selected although the herkomst has rows, also in 2024
C4_Witness ==
  /\ out.page = "dashboard" /\ selected_ho = {}
  /\ out.alle_ho # <<>>
  /\ filtered_df # <<>>
  /\ out.markt_data # <<>>

\* C5: filtering only narrows: filtered_df is data restricted to the rows
\* whose herkomst is the selected one, ho_subset is filtered_df restricted to
\* the rows whose destination is selected; rows are neither added nor changed
C5_Narrowing ==
  out.page = "dashboard" =>
    /\ Restriction(filtered_df, data,
                   {i \in Idx(data) : data[i].herkomst = selected_herkomst})
    /\ Restriction(ho_subset, filtered_df,
                   {i \in Idx(filtered_df) : filtered_df[i].ho \in selected_ho})
    /\ Range(ho_subset) \subseteq Range(filtered_df)
    /\ Range(filtered_df) \subseteq Range(data)

\* both filters leave rows out
C5_Witness ==
  /\ out.page = "dashboard"
  /\ ho_subset # <<>>
  /\ Len(ho_subset) < Len(filtered_df)
  /\ Len(filtered_df) < Len(data)

\* C6: huidig_jaar is the largest year in ho_subset (2024 when it is empty),
\* vorig_jaar the year before; the totals are the sums of 'Aantal' over the
\* rows of ho_subset of those years; delta is shown exactly when
\* totaal_vorig > 0, and is the difference of the totals (given as a whole
\* number, with the year it compares to)
C6_Kpi ==
  out.page = "dashboard" =>
    LET years == {ho_subset[i].Jaar : i \in Idx(ho_subset)}
    IN /\ years = {} => kpi.huidig_jaar = 2024
       /\ years # {} => kpi.huidig_jaar \in years
                        /\ \A y \in years : y <= kpi.huidig_jaar
       /\ kpi.vorig_jaar = kpi.huidig_jaar - 1
       /\ kpi.totaal_huidig
            = SumOver(ho_subset, {i \in Idx(ho_subset) :
                                    ho_subset[i].Jaar = kpi.huidig_jaar})
       /\ kpi.totaal_vorig
            = SumOver(ho_subset, {i \in Idx(ho_subset) :
                                    ho_subset[i].Jaar = kpi.vorig_jaar})
       /\ kpi.delta # <<>> <=> kpi.totaal_vorig > 0
       /\ kpi.delta # <<>> =>
            /\ kpi.diff = kpi.totaal_huidig - kpi.totaal_vorig
            /\ kpi.delta = <<IntOf(kpi.diff), kpi.vorig_jaar>>
            /\ kpi.diff % 2 = 0 => 2 * kpi.delta[1] = kpi.diff

\* the scenario of two files: 2023 with count 10, 2024 with count 'bad'
C6_Witness ==
  /\ out.page = "dashboard"
  /\ Len(data) = 4
  /\ kpi.huidig_jaar = 2024
  /\ kpi.totaal_huidig = 0
  /\ kpi.totaal_vorig = 20
  /\ kpi.delta = <<-10, 2023>>

\* C8: a run in which the uploaded files are those of the run before (only
\* a filter changed) reads no file and sees the same table; a file is read
\* only when the batch was not loaded before in the session; and after every
\* run the table is the one load_and_combine_data gives for the files that
\* are uploaded now
C8_Memo ==
  [][ /\ uploaded_files' = uploaded_files =>
           /\ out'.parsed = <<>>
           /\ out'.data = out.data /\ out'.none = out.none
      /\ out'.parsed # <<>> => uploaded_files' \notin DOMAIN cache
      /\ LET fresh == load_and_combine_data(uploaded_files')
         IN /\ out'.none = fresh.none
            /\ out'.data = fresh.rows
            /\ out'.errors = fresh.errors ]_vars

\* a filter was changed on a dashboard and nothing was read for it
C8_Witness ==
  /\ out.page = "dashboard"
  /\ out.parsed = <<>>
  /\ data # <<>>
  /\ selected_herkomst # out.alle_herkomst[out.default_herkomst_idx + 1]
  /\ selected_ho # Range(out.default_ho_list)

\* the option lists and defaults of a dashboard run are as C9 says
DefaultsOk ==
  LET ah == out.alle_herkomst
      ao == out.alle_ho
      hits == {i \in Idx(ah) : Contains(ROC_VAN_TWENTE, ah[i])}
  IN /\ Range(ah) = {data[i].herkomst : i \in Idx(data)} \ {NaN}
     /\ Range(ao) = {data[i].ho : i \in Idx(data)} \ {NaN}
     /\ \A i, j \in Idx(ah) : i < j => StrLess(ah[i], ah[j])
     /\ \A i, j \in Idx(ao) : i < j => StrLess(ao[i], ao[j])
     /\ hits = {} => out.default_herkomst_idx = 0
     /\ hits # {} => /\ out.default_herkomst_idx + 1 \in hits
                     /\ \A j \in hits : out.default_herkomst_idx + 1 <= j
     /\ Restriction(out.default_ho_list, ao,
                    {i \in Idx(ao) : Contains(SAXION, ao[i])})

\* C9: both option lists are the sorted distinct non-missing names of their
\* column; the default herkomst is the first option containing
\* "ROC van Twente", else the first option; the default destinations are
\* exactly the options containing "Saxion" (none when no option does); and a
\* dashboard that appears after the waiting page shows these defaults
C9_Defaults ==
  [][ out'.page = "dashboard" =>
        /\ DefaultsOk'
        /\ out.page # "dashboard" =>
             /\ selected_ho' = Range(out'.default_ho_list)
             /\ out'.alle_herkomst # <<>> =>
                  selected_herkomst'
                    = out'.alle_herkomst[out'.default_herkomst_idx + 1] ]_vars

\* the first option does not contain "ROC van Twente", two later ones do, and
\* one destination of several contains "Saxion" without being equal to it
C9_Witness ==
  /\ out.page = "dashboard"
  /\ out.default_herkomst_idx = 1
  /\ Len(out.alle_herkomst) >= 3
  /\ Contains(ROC_VAN_TWENTE, out.alle_herkomst[3])
  /\ selected_herkomst = ROC_VAN_TWENTE
  /\ Len(out.default_ho_list) = 2
  /\ Len(out.alle_ho) > 2
  /\ selected_ho = Range(out.default_ho_list)

\* C10 as stated: in each grouped sum a row with a missing key has a group
\* of its own, so the groups of an aggregate add up to the rows it was
\* computed from
C10_Original ==
  out.page = "dashboard" =>
    LET of_jaar == OfJaar(ho_subset, kpi.huidig_jaar)
        markt_rows == OfJaar(filtered_df, kpi.huidig_jaar)
    IN /\ SumAantal(out.trend_data) = SumAantal(ho_subset)
       /\ SumAantal(out.markt_data) = SumAantal(markt_rows)
       /\ SumAantal(GroupBySum(of_jaar, "opl")) = SumAantal(of_jaar)
       /\ SumAantal(out.herkomst_type) = SumAantal(ho_subset)

----------------------------------------------------------------------------
(* A session opened with one file of many opleidingen *)

NumProgs == 11

\* "PA", "PB", ...
Prog(i) == <<80, 64 + i>>

\* one row per opleiding, in descending order of name
TopFile(n, c) ==
  Parsed("top.csv",
         [i \in 1..n |-> Row(W(2024), W(c[i]), ROC_VAN_TWENTE, MBO, SAXION,
                             Prog(n + 1 - i))])

\* the first run of the session, then the run after the upload of the file
InitTop ==
  \E n \in 0..NumProgs : \E c \in [1..n -> {1, 2}] :
    LET files == <<TopFile(n, c)>>
        r0 == Script(<<>>, <<>>, NoEvent, [page |-> "none"], NoneSel, {})
        r == Script(files, r0.store, NoEvent, r0.out, r0.sel_herkomst, r0.sel_ho)
    IN /\ uploaded_files = files
       /\ cache = r.store
       /\ selected_herkomst = r.sel_herkomst
       /\ selected_ho = r.sel_ho
       /\ out = r.out

NextTop == \E S \in SUBSET Range(out.alle_ho) : SelectHo(S)

SpecTop == InitTop /\ [][NextTop]_vars

\* C7: the top 10 holds at most 10 of the per-opleiding sums of the rows of
\* ho_subset of huidig_jaar, all of them when there are 10 or fewer; every
\* sum kept is >= every sum left out; sums that are equal stay in the order
\* they have in the table of sums
C7_Top10 ==
  out.page = "dashboard" =>
    LET g == GroupBySum(OfJaar(ho_subset, kpi.huidig_jaar), "opl")
        t == out.sector_data
    IN /\ Len(t) <= 10
       /\ Len(g) <= 10 => Len(t) = Len(g)
       /\ Len(g) > 10 => Len(t) = 10
       /\ Range(t) \subseteq Range(g)
       /\ \A i, j \in Idx(t) : i < j => t[i] # t[j]
       /\ \A r \in Range(t) : \A x \in Range(g) \ Range(t) : r.Aantal >= x.Aantal
       /\ \A i, j \in Idx(t) :
            (i < j /\ t[i].Aantal = t[j].Aantal) =>
              \E a, b \in Idx(g) : a < b /\ g[a] = t[i] /\ g[b] = t[j]

\* eleven opleidingen: one with a smaller sum, not the last one, is left
\* out, and equal sums are among the ten kept
C7_Witness ==
  LET g == GroupBySum(OfJaar(ho_subset, kpi.huidig_jaar), "opl")
      t == out.sector_data
  IN /\ out.page = "dashboard"
     /\ Len(g) = 11 /\ Len(t) = 10
     /\ g[11] \in Range(t)
     /\ \E k \in Idx(g) : g[k] \notin Range(t) /\ g[k].Aantal < t[10].Aantal
     /\ t[1].Aantal = t[2].Aantal

====
